---- MODULE Spec2Model ----
(***************************************************************************)
(* Model of starter-code-simple/app.py: a Flask service over one sqlite    *)
(* table `users` with three endpoints (GET /users, POST /users, POST       *)
(* /login).  Each worker handles one request at a time; a handler is split *)
(* at its single storage statement, which sqlite executes atomically.      *)
(***************************************************************************)
EXTENDS Integers, Sequences, FiniteSets, TLC

\* ------------------------------------------------------------------ bounds
NumProcs == 2

Procs == 1..NumProcs

\* The salts bcrypt.gensalt() may draw.
Salts == {1, 2}

\* ------------------------------------------------------- program constants
MinUsernameLen == 3
MinPasswordLen == 8
BcryptMaxBytes == 72

\* ------------------------------------------------------------------ strings
\* A string is a sequence of one-character strings.
Rep(c, n) == [i \in 1..n |-> c]

RECURSIVE lstrip(_)
lstrip(s) == IF s # <<>> /\ Head(s) = " " THEN lstrip(Tail(s)) ELSE s

RECURSIVE rstrip(_)
rstrip(s) ==
    IF s # <<>> /\ s[Len(s)] = " " THEN rstrip(SubSeq(s, 1, Len(s) - 1)) ELSE s

strip(s) == rstrip(lstrip(s))

\* --------------------------------------------------------------- JSON values
Str(s) == [t |-> "str", s |-> s]
Num == [t |-> "num", s |-> <<>>]          \* a non-zero JSON number
Absent == [t |-> "absent", s |-> <<>>]    \* the key is not in the object

\* Python truthiness of a value (`not x` is its negation).
Truthy(v) == IF v.t = "str" THEN v.s # <<>> ELSE v.t = "num"

\* data.get(key, ""): the default replaces a missing key.
Get(v) == IF v.t = "absent" THEN Str(<<>>) ELSE v

\* ------------------------------------------------------------------- inputs
UsernameStrings ==
    { <<>>, <<" ", " ", " ">>, <<"a", "b">>, <<"a", "b", "c">>,
      <<" ", "a", "b", "c">>, <<"a", "b", "d">> }

LongA == Rep("a", BcryptMaxBytes) \o <<"a">>
LongB == Rep("a", BcryptMaxBytes) \o <<"b">>

PasswordStrings ==
    { <<>>, Rep("a", MinPasswordLen - 1), Rep("a", MinPasswordLen), LongA, LongB }

UsernameValues == {Str(s) : s \in UsernameStrings} \cup {Num}
PasswordValues == {Str(s) : s \in PasswordStrings} \cup {Num}

NonJsonBody == [kind |-> "nonjson", username |-> Absent, password |-> Absent]
ArrayBody == [kind |-> "array", username |-> Absent, password |-> Absent]
ObjectBodies ==
    [kind : {"object"}, username : UsernameValues, password : PasswordValues]
    \cup {[kind |-> "object", username |-> Absent, password |-> Absent]}
Bodies == {NonJsonBody, ArrayBody} \cup ObjectBodies

NoBody == [kind |-> "none", username |-> Absent, password |-> Absent]
NoReq == [op |-> "none", body |-> NoBody]

\* ---------------------------------------------------------------- responses
Resp(status, key, text, username, user_id, users) ==
    [status |-> status, key |-> key, text |-> text, username |-> username,
     user_id |-> user_id, users |-> users]

ErrorResp(status, text) == Resp(status, "error", text, <<>>, 0, <<>>)
MessageResp(status, text) == Resp(status, "message", text, <<>>, 0, <<>>)
\* An exception that leaves the view function: the framework answers 500.
Unhandled == Resp(500, "html", "Internal Server Error", <<>>, 0, <<>>)
NoResp == Resp(0, "none", "", <<>>, 0, <<>>)

NotJson == ErrorResp(400, "Request must be JSON")
MissingFields == ErrorResp(400, "Missing username or password")
InvalidUsername == ErrorResp(400, "Username must be at least 3 characters.")
InvalidPassword == ErrorResp(400, "Password must be at least 8 characters.")
DuplicateUsername == ErrorResp(409, "Username already exists")
InternalError == ErrorResp(500, "Internal server error")
InvalidCredentials == MessageResp(401, "Invalid credentials")
Created(username) == Resp(201, "message", "User created", username, 0, <<>>)
LoginSuccessful(id) == Resp(200, "message", "Login successful", <<>>, id, <<>>)
UsersResp(users) == Resp(200, "users", "", <<>>, 0, users)

\* --------------------------------------------------------------- validation
NoError == "None"

\* mutant: the username bound is off by one
validate_short_username(username, password) ==
    IF ~Truthy(username) \/ username.t # "str"
       \/ Len(strip(username.s)) < MinUsernameLen - 1
    THEN "Username must be at least 3 characters."
    ELSE IF ~Truthy(password) \/ password.t # "str"
            \/ Len(password.s) < MinPasswordLen
         THEN "Password must be at least 8 characters."
         ELSE NoError

\* mutant: the password bound is off by one
validate_short_password(username, password) ==
    IF ~Truthy(username) \/ username.t # "str"
       \/ Len(strip(username.s)) < MinUsernameLen
    THEN "Username must be at least 3 characters."
    ELSE IF ~Truthy(password) \/ password.t # "str"
            \/ Len(password.s) < MinPasswordLen - 1
         THEN "Password must be at least 8 characters."
         ELSE NoError

validate_username_password(username, password) ==
    IF ~Truthy(username) \/ username.t # "str"
       \/ Len(strip(username.s)) < MinUsernameLen
    THEN "Username must be at least 3 characters."
    ELSE IF ~Truthy(password) \/ password.t # "str"
            \/ Len(password.s) < MinPasswordLen
         THEN "Password must be at least 8 characters."
         ELSE NoError

\* ------------------------------------------------------------------- bcrypt
\* A hash is the salt together with the one-way image of the key bytes; the
\* image is kept symbolic as the key it was computed from.
NoHash == [salt |-> 0, key |-> <<>>]

Truncate(password) ==
    IF Len(password) > BcryptMaxBytes
    THEN SubSeq(password, 1, BcryptMaxBytes) ELSE password

hashpw(password, salt) == [salt |-> salt, key |-> Truncate(password)]

\* mutant: the candidate is hashed with a salt of its own, not the stored one
checkpw_own_salt(password, stored_hash) == hashpw(password, 1) = stored_hash

checkpw(password, stored_hash) == hashpw(password, stored_hash.salt) = stored_hash

\* ------------------------------------------------------------------ storage
Usernames(table) == {table[i].username : i \in 1..Len(table)}

\* mutant: the username column has no UNIQUE constraint
UniqueViolation_never(table, username) == FALSE

UniqueViolation(table, username) == username \in Usernames(table)

\* INTEGER PRIMARY KEY AUTOINCREMENT; rows are never deleted.
NextId(table) == Len(table) + 1

\* mutant: the insert is not committed
InsertRow_lost(table, username, password) == table

InsertRow(table, username, password) ==
    Append(table, [id |-> NextId(table), username |-> username,
                   password |-> password])

\* SELECT id, username, password FROM users WHERE username = ?  (fetchone)
FindRows(table, username) ==
    {i \in 1..Len(table) : table[i].username = username}

\* mutant: SELECT * instead of SELECT id, username
UserView_all(r) == r

UserView(r) == [id |-> r.id, username |-> r.username]

\* SELECT id, username FROM users
SelectUsers(table) == [i \in 1..Len(table) |-> UserView(table[i])]

\* sqlite3.Connection.__exit__ commits or rolls back; it does not close.
ConnectionExit(c) == c

ValidNames == {strip(s) : s \in {u \in UsernameStrings : Len(strip(u)) >= MinUsernameLen}}
NoPassword == [t |-> "none", s |-> <<>>]

VARIABLES
    rows,             \* the users table, in insertion order
    started,          \* init_db has run
    bcryptTruncates,  \* the installed bcrypt truncates at 72 bytes (else raises)
    pc,               \* per worker: "idle", "insert", "lookup", "respond"
    req,              \* per worker: the request being handled
    hashed,           \* per worker: create_user's hashed_str
    resp,             \* per worker: the response of the request
    conn,             \* per worker: the request's connection, "none" or "open"
    supplied          \* per valid username: password of the register that got 201

vars == <<rows, started, bcryptTruncates, pc, req, hashed, resp, conn, supplied>>

Init ==
    /\ rows = <<>>
    /\ started = FALSE
    /\ bcryptTruncates \in BOOLEAN
    /\ pc = [p \in Procs |-> "idle"]
    /\ req = [p \in Procs |-> NoReq]
    /\ hashed = [p \in Procs |-> NoHash]
    /\ resp = [p \in Procs |-> NoResp]
    /\ conn = [p \in Procs |-> "none"]
    /\ supplied = [u \in ValidNames |-> NoPassword]

\* bcrypt.hashpw / checkpw raise ValueError on more than 72 bytes (bcrypt >= 5).
BcryptRaises(password) == ~bcryptTruncates /\ Len(password) > BcryptMaxBytes

\* Finish the request of p with response r, no further storage access.
Answer(p, r) ==
    /\ pc' = [pc EXCEPT ![p] = "respond"]
    /\ resp' = [resp EXCEPT ![p] = r]

\* ------------------------------------------------------------------ startup
init_db(p) ==
    /\ ~started
    /\ pc[p] = "idle"
    /\ started' = TRUE
    /\ rows' = rows                       \* CREATE TABLE IF NOT EXISTS
    /\ UNCHANGED <<bcryptTruncates, pc, req, hashed, resp, conn, supplied>>

\* --------------------------------------------------------------- GET /users
get_users(p) ==
    /\ started
    /\ pc[p] = "idle"
    /\ req' = [req EXCEPT ![p] = [op |-> "list", body |-> NoBody]]
    /\ conn' = [conn EXCEPT ![p] = ConnectionExit("open")]
    /\ Answer(p, UsersResp(SelectUsers(rows)))
    /\ UNCHANGED <<rows, started, bcryptTruncates, hashed, supplied>>

\* -------------------------------------------------------------- POST /users
\* lines 80-94: parse, validate, hash
create_user(p, body) ==
    /\ started
    /\ pc[p] = "idle"
    /\ req' = [req EXCEPT ![p] = [op |-> "register", body |-> body]]
    /\ conn' = [conn EXCEPT ![p] = "none"]
    /\ LET username == Get(body.username)
           password == Get(body.password)
       IN IF body.kind = "nonjson"
          THEN Answer(p, NotJson) /\ UNCHANGED hashed
          ELSE IF body.kind # "object" \/ username.t # "str"
          THEN Answer(p, Unhandled) /\ UNCHANGED hashed  \* AttributeError
          ELSE LET error ==
                     validate_username_password(Str(strip(username.s)), password)
               IN IF error # NoError
                  THEN Answer(p, ErrorResp(400, error)) /\ UNCHANGED hashed
                  ELSE IF BcryptRaises(password.s)
                  THEN Answer(p, Unhandled) /\ UNCHANGED hashed  \* ValueError
                  ELSE \E salt \in Salts :
                         /\ hashed' = [hashed EXCEPT ![p] = hashpw(password.s, salt)]
                         /\ pc' = [pc EXCEPT ![p] = "insert"]
                         /\ UNCHANGED resp
    /\ UNCHANGED <<rows, started, bcryptTruncates, supplied>>

\* lines 96-110: the INSERT and the response
create_user_insert(p) ==
    /\ pc[p] = "insert"
    /\ LET username == strip(Get(req[p].body.username).s)
       IN IF UniqueViolation(rows, username)
          THEN /\ Answer(p, DuplicateUsername)       \* sqlite3.IntegrityError
               /\ UNCHANGED <<rows, supplied>>
          ELSE /\ rows' = InsertRow(rows, username, hashed[p])
               /\ supplied' = [supplied EXCEPT ![username] = Get(req[p].body.password)]
               /\ Answer(p, Created(username))
    /\ conn' = [conn EXCEPT ![p] = ConnectionExit("open")]
    /\ hashed' = [hashed EXCEPT ![p] = NoHash]
    /\ UNCHANGED <<started, bcryptTruncates, req>>

\* ------------------------------------------------------------- POST /login
\* lines 116-124
login(p, body) ==
    /\ started
    /\ pc[p] = "idle"
    /\ req' = [req EXCEPT ![p] = [op |-> "login", body |-> body]]
    /\ conn' = [conn EXCEPT ![p] = "none"]
    /\ LET username == Get(body.username)
           password == Get(body.password)
       IN IF body.kind = "nonjson"
          THEN Answer(p, NotJson)
          ELSE IF body.kind # "object" \/ username.t # "str"
          THEN Answer(p, Unhandled)                       \* AttributeError
          ELSE IF strip(username.s) = <<>> \/ ~Truthy(password)
          THEN Answer(p, MissingFields)
          ELSE pc' = [pc EXCEPT ![p] = "lookup"] /\ UNCHANGED resp
    /\ UNCHANGED <<rows, started, bcryptTruncates, hashed, supplied>>

\* lines 126-146: the SELECT, the password check and the response
login_lookup(p) ==
    /\ pc[p] = "lookup"
    /\ LET username == strip(Get(req[p].body.username).s)
           password == Get(req[p].body.password)
           found == FindRows(rows, username)
       IN IF found = {}
          THEN Answer(p, InvalidCredentials)
          ELSE \E i \in found :
                 /\ \A j \in found : i <= j                \* fetchone
                 /\ IF password.t # "str" \/ BcryptRaises(password.s)
                    THEN Answer(p, Unhandled)       \* AttributeError, ValueError
                    ELSE IF checkpw(password.s, rows[i].password)
                    THEN Answer(p, LoginSuccessful(rows[i].id))
                    ELSE Answer(p, InvalidCredentials)
    /\ conn' = [conn EXCEPT ![p] = ConnectionExit("open")]
    /\ UNCHANGED <<rows, started, bcryptTruncates, req, hashed, supplied>>

\* ------------------------------------------------------------------ returns
\* The view function returns: the response goes out and the local `conn` goes
\* out of scope, so the worker holds no connection any more.
Return(p) ==
    /\ pc[p] = "respond"
    /\ pc' = [pc EXCEPT ![p] = "idle"]
    /\ req' = [req EXCEPT ![p] = NoReq]
    /\ resp' = [resp EXCEPT ![p] = NoResp]
    /\ conn' = [conn EXCEPT ![p] = "none"]
    /\ UNCHANGED <<rows, started, bcryptTruncates, hashed, supplied>>

\* ----------------------------------------------------------- storage faults
\* The INSERT fails with something other than IntegrityError (lines 104-106).
create_user_insert_fail(p) ==
    /\ pc[p] = "insert"
    /\ Answer(p, InternalError)
    /\ conn' = [conn EXCEPT ![p] = ConnectionExit("open")]
    /\ hashed' = [hashed EXCEPT ![p] = NoHash]
    /\ UNCHANGED <<rows, started, bcryptTruncates, req, supplied>>

\* The SELECT fails (lines 130-132).
login_lookup_fail(p) ==
    /\ pc[p] = "lookup"
    /\ Answer(p, InternalError)
    /\ conn' = [conn EXCEPT ![p] = ConnectionExit("open")]
    /\ UNCHANGED <<rows, started, bcryptTruncates, req, hashed, supplied>>

\* The SELECT of get_users fails: no handler, the exception leaves the view.
get_users_fail(p) ==
    /\ started
    /\ pc[p] = "idle"
    /\ req' = [req EXCEPT ![p] = [op |-> "list", body |-> NoBody]]
    /\ conn' = [conn EXCEPT ![p] = ConnectionExit("open")]
    /\ Answer(p, Unhandled)
    /\ UNCHANGED <<rows, started, bcryptTruncates, hashed, supplied>>

\* Requests that reach the storage statement, the ones whose handling reads or
\* writes the table the workers share: an already trimmed valid username and a
\* password of 8 or of 73 characters.
StorageBodies ==
    { b \in ObjectBodies :
        /\ b.username.t = "str" /\ strip(b.username.s) \in ValidNames
        /\ b.password.t = "str" /\ Len(b.password.s) >= MinPasswordLen
        /\ b.username.s = strip(b.username.s)
        /\ b.password.s # LongB }

\* Every worker takes requests at any time.
Next ==
    \E p \in Procs :
        \/ init_db(p)
        \/ get_users(p)
        \/ \E body \in StorageBodies : create_user(p, body)
        \/ create_user_insert(p)
        \/ \E body \in StorageBodies : login(p, body)
        \/ login_lookup(p)
        \/ Return(p)

Spec == Init /\ [][Next]_vars

\* One request in flight at a time, drawn from every body.
Quiet(p) == \A q \in Procs \ {p} : pc[q] = "idle"

NextInputs ==
    \E p \in Procs :
        \/ init_db(p)
        \/ Quiet(p) /\ get_users(p)
        \/ Quiet(p) /\ \E body \in Bodies : create_user(p, body)
        \/ create_user_insert(p)
        \/ Quiet(p) /\ \E body \in Bodies : login(p, body)
        \/ login_lookup(p)
        \/ Return(p)

SpecInputs == Init /\ [][NextInputs]_vars

\* The same, with a storage engine that can fail.
NextFault ==
    \/ NextInputs
    \/ \E p \in Procs :
        \/ create_user_insert_fail(p)
        \/ login_lookup_fail(p)
        \/ Quiet(p) /\ get_users_fail(p)

SpecFault == Init /\ [][NextFault]_vars

\* ------------------------------------------------------------------- claims
Username(p) == strip(Get(req[p].body.username).s)
Password(p) == Get(req[p].body.password)

\* Worker p takes the step that executes its storage statement.
InsertStep(p) == pc[p] = "insert" /\ pc'[p] = "respond"
LookupStep(p) == pc[p] = "lookup" /\ pc'[p] = "respond"
\* Worker p takes a request of kind op.
BeginStep(p, op) == req[p] = NoReq /\ req'[p].op = op

Registered(u) == u \in ValidNames /\ supplied[u] # NoPassword

\* The id that GET /users reports for username u.
ListedIds(u) ==
    {SelectUsers(rows)[i].id : i \in {j \in 1..Len(rows) : SelectUsers(rows)[j].username = u}}

\* C1: a login with a never-registered username and a non-empty password, and a
\* login with a registered username and a non-empty password that is not the
\* user's, both get 401 {message: "Invalid credentials"}.
C1_Indistinguishable ==
    [][\A p \in Procs :
         (/\ LookupStep(p)
          /\ Password(p).t = "str"
          /\ ~Registered(Username(p)) \/ supplied[Username(p)] # Password(p))
         => resp'[p] = InvalidCredentials]_vars

\* C2: a login answers 200 "Login successful" only for a stored username with
\* the password supplied at its registration, with that record's id; a stored
\* username with another password gets the 401 failure.
C2_SuccessOnlyWithRegisteredPassword ==
    \A p \in Procs :
        (pc[p] = "respond" /\ req[p].op = "login" /\ Password(p).t = "str") =>
            /\ resp[p].status = 200 =>
                 /\ Registered(Username(p))
                 /\ supplied[Username(p)] = Password(p)
                 /\ \E i \in 1..Len(rows) :
                      /\ rows[i].username = Username(p)
                      /\ resp[p] = LoginSuccessful(rows[i].id)
            /\ (/\ Registered(Username(p))
                /\ Truthy(Password(p))
                /\ supplied[Username(p)] # Password(p))
               => resp[p] = InvalidCredentials

\* C3: once register(u, p) has answered 201, every later login(u, p) answers
\* 200 "Login successful" with the id that GET /users reports for u.
C3_RoundTrip ==
    [][\A p \in Procs :
         (/\ LookupStep(p)
          /\ Registered(Username(p))
          /\ supplied[Username(p)] = Password(p))
         => /\ resp'[p].status = 200
            /\ resp'[p].key = "message" /\ resp'[p].text = "Login successful"
            /\ ListedIds(Username(p)) = {resp'[p].user_id}]_vars

C3_Witness ==
    \E p \in Procs :
        /\ pc[p] = "respond" /\ req[p].op = "login"
        /\ Len(rows) = 2 /\ rows[2].username = Username(p)
        /\ supplied[Username(p)] = Password(p)
        /\ resp[p] = LoginSuccessful(2)

\* C4: the first registration of a username answers 201 and adds exactly one
\* record; a registration of a username that already got 201 answers 409
\* "Username already exists" and leaves every record, hashes included, as is.
C4_DuplicateRegister ==
    [][\A p \in Procs :
         InsertStep(p) =>
            IF Registered(Username(p))
            THEN resp'[p] = DuplicateUsername /\ rows' = rows
            ELSE /\ resp'[p] = Created(Username(p))
                 /\ Len(rows') = Len(rows) + 1
                 /\ SubSeq(rows', 1, Len(rows)) = rows
                 /\ rows'[Len(rows')].username = Username(p)]_vars

C4_Witness ==
    \E p \in Procs :
        /\ pc[p] = "respond" /\ req[p].op = "register"
        /\ resp[p] = DuplicateUsername
        /\ Registered(Username(p))
        /\ supplied[Username(p)] # Password(p)
        /\ \E i \in 1..Len(rows) :
             rows[i].username = Username(p) /\ rows[i].password.key = supplied[Username(p)].s

\* C5: under every interleaving of register requests no two records share a
\* username, and of the requests whose INSERT runs for one username exactly the
\* first answers 201 and every other answers 409.
NoDuplicateUsernames ==
    \A i, j \in 1..Len(rows) : rows[i].username = rows[j].username => i = j

C5_AtomicUniqueness ==
    [][/\ NoDuplicateUsernames'
       /\ \A p \in Procs :
            InsertStep(p) =>
               /\ resp'[p] \in {Created(Username(p)), DuplicateUsername}
               /\ resp'[p] = Created(Username(p)) <=> ~Registered(Username(p))]_vars

\* Two registrations of one username in flight together: one 201, one 409.
C5_Witness ==
    \E p, q \in Procs :
        /\ p # q
        /\ pc[p] = "respond" /\ req[p].op = "register"
        /\ pc[q] = "respond" /\ req[q].op = "register"
        /\ Username(p) = Username(q)
        /\ resp[p] = Created(Username(p))
        /\ resp[q] = DuplicateUsername

\* C6: a register whose username has fewer than 3 characters after trimming
\* answers 400 "Username must be at least 3 characters." for any password
\* value, opens no connection and leaves the table unchanged.
ShortUsername(body) ==
    /\ body.kind = "object"
    /\ Get(body.username).t = "str"
    /\ Len(strip(Get(body.username).s)) < MinUsernameLen

C6_ShortUsernameRejected ==
    [][\A p \in Procs :
         (BeginStep(p, "register") /\ ShortUsername(req'[p].body))
         => /\ resp'[p] = InvalidUsername
            /\ pc'[p] = "respond"
            /\ conn'[p] = "none"
            /\ rows' = rows]_vars

C6_Witness ==
    \E p \in Procs :
        /\ pc[p] = "respond" /\ req[p].op = "register"
        /\ req[p].body.username = Str(<<" ", " ", " ">>)
        /\ req[p].body.password = Str(Rep("a", MinPasswordLen))
        /\ resp[p] = InvalidUsername
        /\ Len(rows) > 0

\* C7 (as stated): a register whose password has fewer than 8 characters
\* answers 400 "Password must be at least 8 characters." for every username
\* string, and leaves the table unchanged.
ShortPassword(body) ==
    /\ body.kind = "object"
    /\ Get(body.username).t = "str"
    /\ Get(body.password).t = "str"
    /\ Len(Get(body.password).s) < MinPasswordLen

C7_ShortPasswordAnyUsername ==
    [][\A p \in Procs :
         (BeginStep(p, "register") /\ ShortPassword(req'[p].body))
         => /\ resp'[p] = InvalidPassword
            /\ rows' = rows]_vars

\* C7 (amended): a register whose password has fewer than 8 characters and
\* whose username has at least 3 characters after trimming answers 400
\* "Password must be at least 8 characters.", opens no connection and leaves
\* the table unchanged.
C7_ShortPasswordRejected ==
    [][\A p \in Procs :
         (/\ BeginStep(p, "register")
          /\ ShortPassword(req'[p].body)
          /\ ~ShortUsername(req'[p].body))
         => /\ resp'[p] = InvalidPassword
            /\ pc'[p] = "respond"
            /\ conn'[p] = "none"
            /\ rows' = rows]_vars

C7_Witness ==
    \E p \in Procs :
        /\ pc[p] = "respond" /\ req[p].op = "register"
        /\ req[p].body.username = Str(<<" ", "a", "b", "c">>)
        /\ req[p].body.password = Str(Rep("a", MinPasswordLen - 1))
        /\ resp[p] = InvalidPassword
        /\ Len(rows) > 0

\* C8: a register or login whose body is not JSON, is not a JSON object, or
\* carries a non-string username or password is answered 400 without any
\* storage access.
Malformed(body) ==
    \/ body.kind # "object"
    \/ body.username.t = "num"
    \/ body.password.t = "num"

C8_MalformedRejected ==
    \A p \in Procs :
        (req[p].op \in {"register", "login"} /\ Malformed(req[p].body))
        => /\ pc[p] = "respond"
           /\ resp[p].status = 400
           /\ conn[p] = "none"

\* C9: GET /users answers one {id, username} record per stored user, no
\* other record, and no record has any further field.
C9_ListProjection ==
    [][\A p \in Procs :
         BeginStep(p, "list") =>
            LET users == resp'[p].users
            IN /\ resp'[p].status = 200
               /\ Len(users) = Len(rows)
               /\ \A i \in 1..Len(users) :
                    /\ DOMAIN users[i] = {"id", "username"}
                    /\ users[i].id = rows[i].id
                    /\ users[i].username = rows[i].username]_vars

C9_Witness ==
    \E p \in Procs :
        /\ pc[p] = "respond" /\ req[p].op = "list"
        /\ Len(resp[p].users) = 2
        /\ Len(rows) = 2

\* C10: when the storage operation of a request has exited, on any path, the
\* connection it opened is closed: no worker that is building its answer
\* still holds an open connection.
C10_ConnectionsReleased ==
    \A p \in Procs : pc[p] = "respond" => conn[p] # "open"

====
